---- MODULE Spec2Model ----
(***************************************************************************)
(* Model of mockdown (src/mockdown/src/mockdown.rs): the type-erased       *)
(* expectation queue (ExpectStore), the Mockdown facade and the            *)
(* thread-keyed StaticMock registry, including the poisoning of the two    *)
(* std::sync::Mutex locks by panics raised while a guard is alive.         *)
(***************************************************************************)
EXTENDS Integers, Sequences, FiniteSets, TLC

\* ---- bounds of the model ----
NumThreads == 2
MaxExpects == 2
MaxHandles == 2
NumTypes == 2
NumFns == 2
NumVals == 2
MaxMocks == 1
MaxDepth == 2
NumIfs == 2
NumAddrs == 2
MaxOpens == 2

Threads == 1..NumThreads
Keys == 1..NumThreads
Types == 1..NumTypes
Fns == 1..NumFns
Values == 0..(NumVals - 1)

\* ---- the mappings registered by tests: fn(T) -> U function pointers ----
\* Function f has input type fn_in(f), output type fn_out(f) and maps x to Apply(f, x).
fn_in(f) == ((f - 1) % NumTypes) + 1
fn_out(f) == (((f - 1) \div NumTypes) % NumTypes) + 1
Apply(f, x) == (x + f) % NumVals

\* std::any::type_name::<fn(T) -> U>() ; the literal "nothing" of Mockdown::on_mock
sig(T, U) == <<"fn", T, U>>
Nothing == <<"nothing">>
NoVal == 0 - 1
NoExpect == [f |-> 0, id |-> 0, by |-> 0]
NoAny == [type |-> 0, val |-> NoVal]

\* ---- type erasure ----
as_any(T, v) == [type |-> T, val |-> v]

type_name(e) == sig(fn_in(e.f), fn_out(e.f))

as_type(any, T, e) ==
    IF any.type = T
    THEN [ok |-> TRUE, val |-> any.val, err |-> Nothing]
    ELSE [ok |-> FALSE, val |-> NoVal, err |-> type_name(e)]

\* impl Expect for fn(T) -> U :: mock
mock_always_invoke(e, when) ==
    [ok |-> when.type = fn_in(e.f),
     any |-> IF when.type = fn_in(e.f)
             THEN as_any(fn_out(e.f), Apply(e.f, when.val)) ELSE NoAny,
     err |-> type_name(e), invoked |-> 1]

mock(e, when) ==
    LET a == as_type(when, fn_in(e.f), e) IN
    IF a.ok
    THEN [ok |-> TRUE, any |-> as_any(fn_out(e.f), Apply(e.f, a.val)),
          err |-> Nothing, invoked |-> 1]
    ELSE [ok |-> FALSE, any |-> NoAny, err |-> a.err, invoked |-> 0]

\* dyn Expect::on_mock
expect_on_mock_unchecked(e, T, U, args) ==
    LET then == mock(e, as_any(T, args)) IN
    [ok |-> then.ok, val |-> then.any.val, err |-> then.err, invoked |-> then.invoked]

expect_on_mock(e, T, U, args) ==
    LET then == mock(e, as_any(T, args)) IN
    IF ~then.ok
    THEN [ok |-> FALSE, val |-> NoVal, err |-> then.err, invoked |-> then.invoked]
    ELSE LET r == as_type(then.any, U, e) IN
         [ok |-> r.ok, val |-> r.val, err |-> r.err, invoked |-> then.invoked]

\* ---- ExpectStore: the Vec behind the Arc<Mutex<..>> ----
\* A queue is the Vec: index 1 is Vec[0], index Len is the tail.
add_expect_push(q, e) == Append(q, e)

add_expect(q, e) == <<e>> \o q

next_expect_front(q) ==
    IF q = <<>> THEN [queue |-> q, expect |-> NoExpect]
    ELSE [queue |-> Tail(q), expect |-> Head(q)]

next_expect_peek(q) ==
    IF q = <<>> THEN [queue |-> q, expect |-> NoExpect]
    ELSE [queue |-> q, expect |-> q[Len(q)]]

next_expect(q) ==
    IF q = <<>> THEN [queue |-> q, expect |-> NoExpect]
    ELSE [queue |-> SubSeq(q, 1, Len(q) - 1), expect |-> q[Len(q)]]

clear_keep(q) == q

clear_pop(q) == IF q = <<>> THEN q ELSE SubSeq(q, 1, Len(q) - 1)

clear(q) == <<>>

is_empty_always(q) == TRUE

is_empty(q) == q = <<>>

\* impl Drop for ExpectStore: if !self.is_empty() { panic!(..) }, where others is the
\* number of other handles to the same Arc that are still alive
drop_panics_last_handle(q, others) == ~is_empty(q) /\ others = 0

drop_panics(q, others) == ~is_empty(q)

type_error_no_received(T, U, expect) == [expecting |-> expect, received |-> Nothing]

type_error(T, U, expect) == [expecting |-> expect, received |-> sig(T, U)]

NoError == [expecting |-> Nothing, received |-> Nothing]

\* Mockdown::on_mock on an unpoisoned queue q
on_mock_unwrap(q, T, U, args) ==
    LET n == next_expect(q) IN
    IF n.expect = NoExpect
    THEN [queue |-> n.queue, kind |-> "Panic", val |-> NoVal, err |-> NoError,
          deq |-> NoExpect, invoked |-> 0]
    ELSE LET r == expect_on_mock(n.expect, T, U, args) IN
         [queue |-> n.queue, kind |-> IF r.ok THEN "Ok" ELSE "Err", val |-> r.val,
          err |-> IF r.ok THEN NoError ELSE type_error(T, U, r.err),
          deq |-> n.expect, invoked |-> r.invoked]

on_mock_requeue(q, T, U, args) ==
    LET n == next_expect(q) IN
    IF n.expect = NoExpect
    THEN [queue |-> n.queue, kind |-> "Err", val |-> NoVal,
          err |-> type_error(T, U, Nothing), deq |-> NoExpect, invoked |-> 0]
    ELSE LET r == expect_on_mock(n.expect, T, U, args) IN
         [queue |-> IF r.ok THEN n.queue ELSE q,
          kind |-> IF r.ok THEN "Ok" ELSE "Err", val |-> r.val,
          err |-> IF r.ok THEN NoError ELSE type_error(T, U, r.err),
          deq |-> n.expect, invoked |-> r.invoked]

on_mock(q, T, U, args) ==
    LET n == next_expect(q) IN
    IF n.expect = NoExpect
    THEN [queue |-> n.queue, kind |-> "Err", val |-> NoVal,
          err |-> type_error(T, U, Nothing), deq |-> NoExpect, invoked |-> 0]
    ELSE LET r == expect_on_mock(n.expect, T, U, args) IN
         [queue |-> n.queue, kind |-> IF r.ok THEN "Ok" ELSE "Err", val |-> r.val,
          err |-> IF r.ok THEN NoError ELSE type_error(T, U, r.err),
          deq |-> n.expect, invoked |-> r.invoked]

\* StaticMock::on_mock: map.get(&id).unwrap().on_mock(args) on the queue q of the entry
get_on_mock_cleared(q, T, U, args) == on_mock(clear(q), T, U, args)

get_on_mock(q, T, U, args) == on_mock(q, T, U, args)

\* map.contains_key(&id) of StaticMock::static_mock
contains_key_never(map, id) == FALSE

contains_key(map, id) == id \in map

\* thread::current().id() as used by StaticMock::with
current_id_shared(t) == 1

current_id(t) == t

\* ---- net/src/macos/socket.rs: the socket shim over the system calls ----
IfNames == 1..NumIfs
Addrs == 0..(NumAddrs - 1)
NoNic == 0 - 1
NoSet == [name |-> 0, lladdr |-> 0]
NoSock == [impl |-> "none", fd |-> 0 - 1]
IoctlRets == {0 - 1, 0, 1}
SocketRets == {0 - 2, 0 - 1, 0, 3}

\* LibcSocket::open_local_dgram: match self.socket(..) { fd if fd >= 0 => Ok, ret => Err }
open_result(ret) == IF ret >= 0 THEN "Ok" ELSE "Err"

\* platform/src/macos/socket.rs, LibcSocket::open_local_dgram:
\* match self.sys.socket(..) { -1 => Err(..), fd => Ok(..) }
platform_open_result(ret) == IF ret = 0 - 1 THEN "Err" ELSE "Ok"

\* the two LibcSocket implementations (net, platform) and the one of the tests
LibcImpls == {"libc", "platform"}
SocketImpls == LibcImpls \cup {"mock"}

\* LibcOpenSocket::{get,set}_lladdr: match self.ioctl(..) { 0 => Ok(()), ret => Err(..) }
ioctl_result_nonneg(ret) == IF ret >= 0 THEN "Ok" ELSE "Err"

ioctl_result(ret) == IF ret = 0 THEN "Ok" ELSE "Err"

\* the system behind Sys::ioctl: a request that returns 0 has been carried out on the
\* interface table m, one that returns anything else has changed nothing
sys_ioctl(m, req, request, ret) ==
    IF ret # 0 THEN [kv |-> m, ifreq |-> req]
    ELSE IF request = "SIOCSIFLLADDR"
    THEN [kv |-> [m EXCEPT ![req.name] = req.lladdr], ifreq |-> req]
    ELSE IF m[req.name] = NoNic THEN [kv |-> m, ifreq |-> req]
    ELSE [kv |-> m, ifreq |-> [req EXCEPT !.lladdr = m[req.name]]]

libc_get_lladdr(m, req, ret) ==
    LET r == sys_ioctl(m, req, "SIOCGIFLLADDR", ret) IN
    [kv |-> r.kv, ifreq |-> r.ifreq, result |-> ioctl_result(ret)]

libc_set_lladdr(m, req, ret) ==
    LET r == sys_ioctl(m, req, "SIOCSIFLLADDR", ret) IN
    [kv |-> r.kv, ifreq |-> r.ifreq, result |-> ioctl_result(ret)]

\* mock::MockOpenSocket::get_lladdr
mock_get_lladdr(m, req) ==
    [kv |-> m,
     ifreq |-> IF m[req.name] # NoNic THEN [req EXCEPT !.lladdr = m[req.name]] ELSE req,
     result |-> "Ok"]

\* mock::MockOpenSocket::set_lladdr
mock_set_lladdr(m, req) ==
    [kv |-> [m EXCEPT ![req.name] = req.lladdr], ifreq |-> req, result |-> "Ok"]

VARIABLES
    registry,    \* the keys of the HashMap<ThreadId, M> of the StaticMock
    queue,       \* queue[k]: the Vec of pending expectations of the instance under key k
    poisoned,    \* poisoned[k]: the queue mutex of the instance under key k is poisoned
    handles,     \* handles[t][k]: clones of the instance under key k owned by thread t
    regPoisoned, \* the registry mutex is poisoned
    nreg,        \* nreg[k]: expectations registered on queue k since it was last cleared
    npop,        \* npop[k]: expectations dequeued from queue k since it was last cleared
    aborted,     \* the process aborted (a panic while unwinding from a panic)
    last,        \* the last call: its arguments, its outcome, the queue length before it
    origin,      \* origin[k]: the M::default() instance queue k belongs to (0: none)
    qlock,       \* qlock[k]: the thread holding the queue mutex of k (0: free)
    pc,          \* pc[t]: the queue operation thread t is in the critical section of
    taken,       \* taken[k]: ids of the expectations dequeued from k since its last clear
    regLock,     \* the thread holding the registry mutex of the StaticMock (0: free)
    frames,      \* frames[t]: the calls thread t is inside of, innermost last
    kv,          \* kv[n]: the link-level address the system holds for interface n
    ifreq,       \* the ifreq request buffer handed to get_lladdr / set_lladdr
    osock,       \* the OpenSocket returned by open_local_dgram and not yet dropped
    sock,        \* the last socket call: its request, the ioctl return value, its result
    nsocket,     \* nsocket[fd]: how often socket() has returned the descriptor fd
    nclose       \* nclose[fd]: how often close(fd) has been issued

\* the state of the registry model and the state added for handles shared by threads
regVars == <<registry, queue, poisoned, handles, regPoisoned, nreg, npop, aborted, last>>
sharedVars == <<origin, qlock, pc, taken>>
lockVars == <<regLock, frames>>
fdVars == <<nsocket, nclose>>
sockVars == <<kv, ifreq, osock, sock, fdVars>>
vars == <<regVars, sharedVars, lockVars, sockVars>>

Idle == [op |-> "idle", k |-> 0, snap |-> <<>>]

Call(op, t, k, kind, pre) ==
    [op |-> op, t |-> t, k |-> k, kind |-> kind, T |-> 0, U |-> 0, args |-> NoVal,
     val |-> NoVal, err |-> NoError, deq |-> NoExpect, invoked |-> 0, pre |-> Len(pre),
     inserted |-> FALSE]

MockCall(op, t, k, T, U, args, r, pre) ==
    [op |-> op, t |-> t, k |-> k, kind |-> r.kind, T |-> T, U |-> U, args |-> args,
     val |-> r.val, err |-> r.err, deq |-> r.deq, invoked |-> r.invoked,
     pre |-> Len(pre), inserted |-> FALSE]

\* the record of a socket call: the request as it was before the call, the value the
\* system call returned, the result, and the last set_lladdr that succeeded with no
\* other write to its interface since
SockCall(op, impl, ret, result, set) ==
    [op |-> op, impl |-> impl, ret |-> ret, result |-> result, name |-> ifreq.name,
     lladdr |-> ifreq.lladdr, stored |-> kv[ifreq.name], set |-> set]

Init ==
    /\ registry = {}
    /\ queue = [k \in Keys |-> <<>>]
    /\ poisoned = [k \in Keys |-> FALSE]
    /\ handles = [t \in Threads |-> [k \in Keys |-> 0]]
    /\ regPoisoned = FALSE
    /\ nreg = [k \in Keys |-> 0]
    /\ npop = [k \in Keys |-> 0]
    /\ aborted = FALSE
    /\ last = Call("init", 0, 0, "Ok", <<>>)
    /\ origin = [k \in Keys |-> 0]
    /\ qlock = [k \in Keys |-> 0]
    /\ pc = [t \in Threads |-> Idle]
    /\ taken = [k \in Keys |-> <<>>]
    /\ regLock = 0
    /\ frames = [t \in Threads |-> <<>>]
    /\ kv = [n \in IfNames |-> NoNic]
    /\ ifreq = [name |-> 1, lladdr |-> 0]
    /\ osock = NoSock
    /\ sock = SockCall("init", "none", 0, "Ok", NoSet)
    /\ nsocket = [fd \in SocketRets |-> 0]
    /\ nclose = [fd \in SocketRets |-> 0]

\* Mockdown::expect(self, f) through a handle of thread t
Expect(t, k, f) ==
    /\ ~aborted
    /\ handles[t][k] > 0
    /\ nreg[k] < MaxExpects
    /\ IF poisoned[k]
       THEN \* lock().unwrap() panics; the unwinding drops self, whose drop panics again
            /\ aborted' = TRUE
            /\ last' = Call("expect", t, k, "Abort", queue[k])
            /\ UNCHANGED <<queue, nreg>>
       ELSE /\ queue' = [queue EXCEPT
                            ![k] = add_expect(@, [f |-> f, id |-> nreg[k] + 1, by |-> t])]
            /\ nreg' = [nreg EXCEPT ![k] = @ + 1]
            /\ last' = Call("expect", t, k, "Ok", queue[k])
            /\ UNCHANGED aborted
    /\ UNCHANGED <<registry, poisoned, handles, regPoisoned, npop>>
    /\ UNCHANGED <<sharedVars, lockVars, sockVars>>

\* Mockdown::clear(self) through a handle of thread t
Clear(t, k) ==
    /\ ~aborted
    /\ handles[t][k] > 0
    /\ IF poisoned[k]
       THEN /\ aborted' = TRUE
            /\ last' = Call("clear", t, k, "Abort", queue[k])
            /\ UNCHANGED <<queue, nreg, npop>>
       ELSE /\ queue' = [queue EXCEPT ![k] = clear(@)]
            /\ nreg' = [nreg EXCEPT ![k] = IF queue'[k] = <<>> THEN 0 ELSE @]
            /\ npop' = [npop EXCEPT ![k] = IF queue'[k] = <<>> THEN 0 ELSE @]
            /\ last' = Call("clear", t, k, "Ok", queue[k])
            /\ UNCHANGED aborted
    /\ UNCHANGED <<registry, poisoned, handles, regPoisoned>>
    /\ UNCHANGED <<sharedVars, lockVars, sockVars>>

\* Mockdown::on_mock::<T, U>(&self, args) through a handle of thread t
OnMock(t, k, T, U, args) ==
    /\ ~aborted
    /\ handles[t][k] > 0
    /\ IF poisoned[k]
       THEN /\ last' = [Call("on_mock", t, k, "Panic", queue[k])
                            EXCEPT !.T = T, !.U = U, !.args = args]
            /\ UNCHANGED <<queue, npop>>
       ELSE LET r == on_mock(queue[k], T, U, args) IN
            /\ queue' = [queue EXCEPT ![k] = r.queue]
            /\ npop' = [npop EXCEPT ![k] = IF r.deq = NoExpect THEN @ ELSE @ + 1]
            /\ last' = MockCall("on_mock", t, k, T, U, args, r, queue[k])
    /\ UNCHANGED <<registry, poisoned, handles, regPoisoned, nreg, aborted>>
    /\ UNCHANGED <<sharedVars, lockVars, sockVars>>

\* impl Drop for ExpectStore: thread t drops one of its handles to the instance under k.
\* The panic! is raised while the guard taken for its message is alive, which poisons
\* the queue mutex; on a poisoned mutex is_empty() itself panics in lock().unwrap().
\* the handles to the queue under key k: the clones the threads own and the instance
\* stored in the registry map
Owned(k) == {<<u, i>> \in Threads \X (1..MaxHandles) : i <= handles[u][k]}
HandleCount(k) == Cardinality(Owned(k)) + (IF contains_key(registry, k) THEN 1 ELSE 0)

DropHandle(t, k) ==
    /\ ~aborted
    /\ handles[t][k] > 0
    /\ LET panics == poisoned[k] \/ drop_panics(queue[k], HandleCount(k) - 1) IN
        /\ handles' = [handles EXCEPT ![t][k] = @ - 1]
        /\ poisoned' = [poisoned EXCEPT ![k] = panics]
        /\ last' = Call("drop", t, k, IF panics THEN "Panic" ELSE "Ok", queue[k])
    /\ UNCHANGED <<registry, queue, regPoisoned, nreg, npop, aborted>>
    /\ UNCHANGED <<sharedVars, lockVars, sockVars>>

\* StaticMock::static_mock called on thread t
static_mock(t) ==
    /\ ~aborted
    /\ LET k == current_id(t) IN
       IF regPoisoned
       THEN \* with(): lock().unwrap() panics
            /\ last' = Call("static_mock", t, k, "Panic", queue[k])
            /\ UNCHANGED <<registry, queue, poisoned, handles, regPoisoned, nreg, npop,
                           aborted>>
       ELSE LET inserted == ~contains_key(registry, k)
                \* map.insert(id, M::default()) stores a new queue with a new mutex
                poison == IF inserted THEN FALSE ELSE poisoned[k]
            IN
            /\ handles[t][k] < MaxHandles
            /\ registry' = IF inserted THEN registry \cup {k} ELSE registry
            /\ poisoned' = [poisoned EXCEPT ![k] = poison]
            /\ IF poison
               THEN \* clear() panics in lock().unwrap(); unwinding out of Mockdown::clear
                    \* drops the clone, whose drop panics again
                    /\ aborted' = TRUE
                    /\ last' = Call("static_mock", t, k, "Abort", queue[k])
                    /\ UNCHANGED <<queue, handles, regPoisoned, nreg, npop>>
               ELSE /\ queue' = [queue EXCEPT ![k] = clear(@)]
                    /\ nreg' = [nreg EXCEPT ![k] = IF queue'[k] = <<>> THEN 0 ELSE @]
                    /\ npop' = [npop EXCEPT ![k] = IF queue'[k] = <<>> THEN 0 ELSE @]
                    /\ handles' = [handles EXCEPT ![t][k] = @ + 1]
                    /\ last' = [Call("static_mock", t, k, "Ok", queue[k])
                                    EXCEPT !.inserted = inserted]
                    /\ UNCHANGED <<aborted, regPoisoned>>
    /\ UNCHANGED <<sharedVars, lockVars, sockVars>>

\* StaticMock::on_mock::<T, U>(args) called on thread t
static_on_mock(t, T, U, args) ==
    /\ ~aborted
    /\ LET k == current_id(t)
           panic == [Call("static_on_mock", t, k, "Panic", queue[k])
                         EXCEPT !.T = T, !.U = U, !.args = args]
       IN
       IF regPoisoned
       THEN \* with(): lock().unwrap() panics
            /\ last' = panic
            /\ UNCHANGED <<queue, npop, regPoisoned>>
       ELSE IF k \notin registry
       THEN \* map.get(&id).unwrap() panics on None while the registry guard is alive
            /\ regPoisoned' = TRUE
            /\ last' = panic
            /\ UNCHANGED <<queue, npop>>
       ELSE IF poisoned[k]
       THEN \* next_expect() panics in lock().unwrap() while the registry guard is alive
            /\ regPoisoned' = TRUE
            /\ last' = panic
            /\ UNCHANGED <<queue, npop>>
       ELSE LET r == get_on_mock(queue[k], T, U, args) IN
            /\ queue' = [queue EXCEPT ![k] = r.queue]
            /\ npop' = [npop EXCEPT ![k] = IF r.deq = NoExpect THEN @ ELSE @ + 1]
            /\ last' = MockCall("static_on_mock", t, k, T, U, args, r, queue[k])
            /\ UNCHANGED regPoisoned
    /\ UNCHANGED <<registry, poisoned, handles, nreg, aborted>>
    /\ UNCHANGED <<sharedVars, lockVars, sockVars>>

Next ==
    \/ \E t \in Threads, k \in Keys, f \in Fns : Expect(t, k, f)
    \/ \E t \in Threads, k \in Keys : Clear(t, k)
    \/ \E t \in Threads, k \in Keys, T \in Types, U \in Types, x \in Values :
          OnMock(t, k, T, U, x)
    \/ \E t \in Threads, k \in Keys : DropHandle(t, k)
    \/ \E t \in Threads : static_mock(t)
    \/ \E t \in Threads, T \in Types, U \in Types, x \in Values : static_on_mock(t, T, U, x)

Spec == Init /\ [][Next]_vars

\* ---- handles shared by threads: M::default(), clone, the queue mutex ----
\* Each queue operation is a critical section of the queue mutex: the thread takes the
\* lock and reads the Vec (Lock..), then writes the Vec back and releases the lock.
FreeKeys == {k \in Keys : origin[k] = 0}
Mocks == {k \in Keys : origin[k] = k}
FreshKey == CHOOSE k \in FreeKeys : \A j \in FreeKeys : k <= j

\* impl Clone for ExpectStore: the queue a clone of a handle to k refers to, where fresh
\* is an unused allocation
clone_copy(k, fresh) == fresh

clone(k, fresh) == k

\* Mutex::lock returns when no thread holds the mutex
lock_unguarded(owner) == TRUE

lock(owner) == owner = 0

InSection(t) == pc[t].op # "idle"

\* M::default() on thread t: a new empty queue and the first handle to it
Default(t) ==
    /\ ~InSection(t)
    /\ FreeKeys # {}
    /\ Cardinality(Mocks) < MaxMocks
    /\ LET k == FreshKey IN
        /\ origin' = [origin EXCEPT ![k] = k]
        /\ handles' = [handles EXCEPT ![t][k] = 1]
        /\ last' = Call("default", t, k, "Ok", queue[k])
    /\ UNCHANGED <<registry, queue, poisoned, regPoisoned, nreg, npop, aborted>>
    /\ UNCHANGED <<qlock, pc, taken, lockVars, sockVars>>

\* thread t clones its handle to k and hands the clone to thread u
CloneHandle(t, u, k) ==
    /\ ~InSection(t)
    /\ handles[t][k] > 0
    /\ LET c == clone(k, IF FreeKeys = {} THEN k ELSE FreshKey) IN
        /\ handles[u][c] < MaxHandles
        /\ handles' = [handles EXCEPT ![u][c] = @ + 1]
        /\ origin' = [origin EXCEPT ![c] = origin[k]]
        /\ queue' = [queue EXCEPT ![c] = queue[k]]
        /\ nreg' = [nreg EXCEPT ![c] = nreg[k]]
        /\ npop' = [npop EXCEPT ![c] = npop[k]]
        /\ taken' = [taken EXCEPT ![c] = taken[k]]
        /\ last' = Call("clone", t, c, "Ok", queue[k])
    /\ UNCHANGED <<registry, poisoned, regPoisoned, aborted, qlock, pc, lockVars, sockVars>>

\* a queue operation of thread t through a handle to k takes the queue mutex
Lock(t, k, op) ==
    /\ ~InSection(t)
    /\ lock(qlock[k])
    /\ qlock' = [qlock EXCEPT ![k] = t]
    /\ pc' = [pc EXCEPT ![t] = [op |-> op, k |-> k, snap |-> queue[k]]]
    /\ UNCHANGED <<regVars, origin, taken, lockVars, sockVars>>

Unlock(t) ==
    /\ qlock' = [qlock EXCEPT ![pc[t].k] = 0]
    /\ pc' = [pc EXCEPT ![t] = Idle]

\* ExpectStore::add_expect: self.0.lock().unwrap() ...
LockAddExpect(t, k) ==
    /\ handles[t][k] > 0
    /\ nreg[k] < MaxExpects
    /\ Lock(t, k, "expect")

\* ... .insert(0, Box::new(expect)), then Mockdown::expect returns
AddExpect(t, f) ==
    /\ pc[t].op = "expect"
    /\ LET k == pc[t].k IN
        /\ queue' = [queue EXCEPT
                        ![k] = add_expect(pc[t].snap, [f |-> f, id |-> nreg[k] + 1, by |-> t])]
        /\ nreg' = [nreg EXCEPT ![k] = @ + 1]
        /\ last' = Call("expect", t, k, "Ok", pc[t].snap)
    /\ Unlock(t)
    /\ UNCHANGED <<registry, poisoned, handles, regPoisoned, npop, aborted, origin, taken>>
    /\ UNCHANGED <<lockVars, sockVars>>

\* ExpectStore::next_expect: self.0.lock().unwrap() ...
LockNextExpect(t, k) ==
    /\ handles[t][k] > 0
    /\ Lock(t, k, "on_mock")

\* ... .pop(), then Mockdown::on_mock::<T, U>(args) runs the expectation and returns
NextExpect(t, T, U, args) ==
    /\ pc[t].op = "on_mock"
    /\ LET k == pc[t].k
           r == on_mock(pc[t].snap, T, U, args)
       IN
        /\ queue' = [queue EXCEPT ![k] = r.queue]
        /\ npop' = [npop EXCEPT ![k] = IF r.deq = NoExpect THEN @ ELSE @ + 1]
        /\ taken' = [taken EXCEPT ![k] = IF r.deq = NoExpect THEN @ ELSE Append(@, r.deq.id)]
        /\ last' = MockCall("on_mock", t, k, T, U, args, r, pc[t].snap)
    /\ Unlock(t)
    /\ UNCHANGED <<registry, poisoned, handles, regPoisoned, nreg, aborted, origin>>
    /\ UNCHANGED <<lockVars, sockVars>>

\* ExpectStore::clear: self.0.lock().unwrap() ...
LockClear(t, k) ==
    /\ handles[t][k] > 0
    /\ Lock(t, k, "clear")

\* ... .clear(), then Mockdown::clear returns
ClearLocked(t) ==
    /\ pc[t].op = "clear"
    /\ LET k == pc[t].k IN
        /\ queue' = [queue EXCEPT ![k] = clear(pc[t].snap)]
        /\ nreg' = [nreg EXCEPT ![k] = IF queue'[k] = <<>> THEN 0 ELSE @]
        /\ npop' = [npop EXCEPT ![k] = IF queue'[k] = <<>> THEN 0 ELSE @]
        /\ taken' = [taken EXCEPT ![k] = IF queue'[k] = <<>> THEN <<>> ELSE @]
        /\ last' = Call("clear", t, k, "Ok", pc[t].snap)
    /\ Unlock(t)
    /\ UNCHANGED <<registry, poisoned, handles, regPoisoned, aborted, origin>>
    /\ UNCHANGED <<lockVars, sockVars>>

NextShared ==
    \/ \E t \in Threads : Default(t)
    \/ \E t \in Threads, u \in Threads, k \in Keys : CloneHandle(t, u, k)
    \/ \E t \in Threads, k \in Keys : LockAddExpect(t, k)
    \/ \E t \in Threads, f \in Fns : AddExpect(t, f)
    \/ \E t \in Threads, k \in Keys : LockNextExpect(t, k)
    \/ \E t \in Threads, T \in Types, U \in Types, x \in Values : NextExpect(t, T, U, x)
    \/ \E t \in Threads, k \in Keys : LockClear(t, k)
    \/ \E t \in Threads : ClearLocked(t)

SpecShared == Init /\ [][NextShared]_vars

\* ---- the registry mutex: StaticMock::with, static_mock and on_mock step by step ----
\* A frame is a call in progress: op is the operation, at the statement it has reached,
\* f the mapping dequeued by on_mock and T the argument type it was called with.
\*   "with"        StaticMock::with: self.0.lock()
\*   "map"         the registry guard is held: contains_key / insert / get
\*   "lock_queue"  ExpectStore: self.0.lock()
\*   "queue"       the queue guard is held: clear / insert / pop
\*   "mapping"     the dequeued fn(T) -> U runs
\*   "deadlock"    lock() on a mutex the thread itself holds, never returning
StaticOps == {"static_mock", "on_mock"}
HandleOps == {"expect", "clear"}
Frame(op, at) == [op |-> op, at |-> at, f |-> 0, T |-> 0]
Top(t) == frames[t][Len(frames[t])]
At(t, at) == frames[t] # <<>> /\ Top(t).at = at
Goto(t, at) == [frames EXCEPT ![t][Len(frames[t])].at = at]

\* the call returns: its frame is popped and the guards it owns are dropped
Return(t, kind) ==
    /\ frames' = [frames EXCEPT ![t] = SubSeq(@, 1, Len(@) - 1)]
    /\ regLock' = IF Top(t).op \in StaticOps THEN 0 ELSE regLock
    /\ last' = Call(Top(t).op, t, current_id(t), kind, <<>>)

\* the call panics: the thread unwinds out of all its frames; a registry guard dropped
\* by the unwinding poisons the registry mutex
Unwind(t, op) ==
    /\ frames' = [frames EXCEPT ![t] = <<>>]
    /\ regLock' = IF regLock = t THEN 0 ELSE regLock
    /\ regPoisoned' = (regPoisoned \/ regLock = t)
    /\ last' = Call(op, t, current_id(t), "Panic", <<>>)

\* thread t calls MOCK.static_mock() or MOCK.on_mock(args)
CallStatic(t, op) ==
    /\ frames[t] = <<>>
    /\ frames' = [frames EXCEPT ![t] = <<Frame(op, "with")>>]
    /\ UNCHANGED <<regVars, sharedVars, regLock>>
    /\ UNCHANGED sockVars

\* thread t calls expect(f) or clear() on the handle static_mock() returned to it
CallHandle(t, op) ==
    /\ frames[t] = <<>>
    /\ handles[t][current_id(t)] > 0
    /\ op = "expect" => nreg[current_id(t)] < MaxExpects
    /\ frames' = [frames EXCEPT ![t] = <<Frame(op, "lock_queue")>>]
    /\ UNCHANGED <<regVars, sharedVars, regLock>>
    /\ UNCHANGED sockVars

\* StaticMock::with: self.0.lock().unwrap() on the free registry mutex
With(t) ==
    /\ At(t, "with")
    /\ lock(regLock)
    /\ IF regPoisoned
       THEN /\ Unwind(t, Top(t).op)
            /\ UNCHANGED <<registry, queue, handles, nreg>>
       ELSE /\ regLock' = t
            /\ frames' = Goto(t, "map")
            /\ UNCHANGED <<regVars>>
    /\ UNCHANGED <<poisoned, npop, aborted, sharedVars>>
    /\ UNCHANGED sockVars

\* StaticMock::with: self.0.lock() on the registry mutex the thread already holds; std
\* leaves the outcome unspecified but for the call not returning (deadlock or panic)
Relock(t, outcome) ==
    /\ At(t, "with")
    /\ regLock = t
    /\ IF outcome = "deadlock"
       THEN /\ frames' = Goto(t, "deadlock")
            /\ UNCHANGED <<regVars, regLock>>
       ELSE /\ Unwind(t, "relock")
            /\ UNCHANGED <<registry, queue, poisoned, handles, nreg, npop, aborted>>
    /\ UNCHANGED sharedVars
    /\ UNCHANGED sockVars

\* static_mock: contains_key / insert ; on_mock: map.get(&id).unwrap()
Lookup(t) ==
    /\ At(t, "map")
    /\ LET k == current_id(t) IN
       IF Top(t).op = "static_mock"
       THEN /\ registry' = IF contains_key(registry, k) THEN registry ELSE registry \cup {k}
            /\ frames' = Goto(t, "lock_queue")
            /\ UNCHANGED <<regLock, regPoisoned, last>>
       ELSE IF contains_key(registry, k)
       THEN /\ frames' = Goto(t, "lock_queue")
            /\ UNCHANGED <<registry, regLock, regPoisoned, last>>
       ELSE /\ Unwind(t, Top(t).op)
            /\ UNCHANGED registry
    /\ UNCHANGED <<queue, poisoned, handles, nreg, npop, aborted, sharedVars>>
    /\ UNCHANGED sockVars

\* ExpectStore: self.0.lock().unwrap() of clear, add_expect and next_expect
LockQueue(t) ==
    /\ At(t, "lock_queue")
    /\ lock(qlock[current_id(t)])
    /\ qlock' = [qlock EXCEPT ![current_id(t)] = t]
    /\ frames' = Goto(t, "queue")
    /\ UNCHANGED <<regVars, origin, pc, taken, regLock>>
    /\ UNCHANGED sockVars

\* ExpectStore::clear of static_mock's .clone().clear() and of Mockdown::clear
ClearQueue(t) ==
    /\ At(t, "queue")
    /\ Top(t).op \in {"static_mock", "clear"}
    /\ LET k == current_id(t) IN
        /\ queue' = [queue EXCEPT ![k] = clear(queue[k])]
        /\ nreg' = [nreg EXCEPT ![k] = 0]
        /\ qlock' = [qlock EXCEPT ![k] = 0]
        /\ handles' = [handles EXCEPT ![t][k] = IF Top(t).op = "static_mock" THEN 1 ELSE @]
    /\ Return(t, "Ok")
    /\ UNCHANGED <<registry, poisoned, regPoisoned, npop, aborted, origin, pc, taken>>
    /\ UNCHANGED sockVars

\* ExpectStore::add_expect of Mockdown::expect
InsertExpect(t, f) ==
    /\ At(t, "queue")
    /\ Top(t).op = "expect"
    /\ LET k == current_id(t) IN
        /\ queue' = [queue EXCEPT
                        ![k] = add_expect(queue[k], [f |-> f, id |-> nreg[k] + 1, by |-> t])]
        /\ nreg' = [nreg EXCEPT ![k] = @ + 1]
        /\ qlock' = [qlock EXCEPT ![k] = 0]
    /\ Return(t, "Ok")
    /\ UNCHANGED <<registry, poisoned, handles, regPoisoned, npop, aborted, origin, pc, taken>>
    /\ UNCHANGED sockVars

\* ExpectStore::next_expect of Mockdown::on_mock::<T, _>, up to the call of the mapping
PopExpect(t, T) ==
    /\ At(t, "queue")
    /\ Top(t).op = "on_mock"
    /\ LET k == current_id(t)
           n == next_expect(queue[k])
       IN
        /\ queue' = [queue EXCEPT ![k] = n.queue]
        /\ qlock' = [qlock EXCEPT ![k] = 0]
        /\ IF n.expect # NoExpect /\ mock(n.expect, as_any(T, 0)).invoked = 1
           THEN /\ frames' = [frames EXCEPT ![t][Len(frames[t])] =
                                [op |-> "on_mock", at |-> "mapping", f |-> n.expect.f, T |-> T]]
                /\ UNCHANGED <<regLock, last>>
           ELSE Return(t, "Err")
    /\ UNCHANGED <<registry, poisoned, handles, regPoisoned, nreg, npop, aborted>>
    /\ UNCHANGED <<origin, pc, taken>>
    /\ UNCHANGED sockVars

\* the mapping runs: it returns (and on_mock::<_, U> downcasts its result), or it calls
\* static_mock or on_mock of the same StaticMock
Mapping(t, calls, U) ==
    /\ At(t, "mapping")
    /\ IF calls \in StaticOps
       THEN /\ Len(frames[t]) < MaxDepth
            /\ frames' = [frames EXCEPT ![t] = Append(@, Frame(calls, "with"))]
            /\ UNCHANGED <<regLock, last>>
       ELSE LET e == [f |-> Top(t).f, id |-> 0, by |-> t] IN
            Return(t, IF expect_on_mock(e, Top(t).T, U, 0).ok THEN "Ok" ELSE "Err")
    /\ UNCHANGED <<registry, queue, poisoned, handles, regPoisoned, nreg, npop, aborted>>
    /\ UNCHANGED sharedVars
    /\ UNCHANGED sockVars

NextLock ==
    \/ \E t \in Threads, op \in StaticOps : CallStatic(t, op)
    \/ \E t \in Threads, op \in HandleOps : CallHandle(t, op)
    \/ \E t \in Threads : With(t)
    \/ \E t \in Threads, outcome \in {"deadlock", "panic"} : Relock(t, outcome)
    \/ \E t \in Threads : Lookup(t)
    \/ \E t \in Threads : LockQueue(t)
    \/ \E t \in Threads : ClearQueue(t)
    \/ \E t \in Threads, f \in Fns : InsertExpect(t, f)
    \/ \E t \in Threads, T \in Types : PopExpect(t, T)
    \/ \E t \in Threads, calls \in StaticOps \cup {"return"}, U \in Types : Mapping(t, calls, U)

SpecLock == Init /\ [][NextLock]_vars

\* ---- the socket shim: open_local_dgram, get_lladdr, set_lladdr, drop ----
\* the number of system calls counted in n
RECURSIVE SumOver(_, _)
SumOver(n, S) ==
    IF S = {} THEN 0
    ELSE LET fd == CHOOSE x \in S : TRUE IN n[fd] + SumOver(n, S \ {fd})
Issued(n) == SumOver(n, SocketRets)

\* the caller fills the request: ifreq::set_name, ifreq::set_lladdr
SetIfreq(n, a) ==
    /\ ifreq' = [name |-> n, lladdr |-> a]
    /\ sock' = [SockCall("ifreq", "none", 0, "Ok", sock.set) EXCEPT
                    !.name = n, !.lladdr = a, !.stored = kv[n]]
    /\ UNCHANGED <<kv, osock>>
    /\ UNCHANGED <<regVars, sharedVars, lockVars>>
    /\ UNCHANGED fdVars

\* MockSocket::set_nic / with_nic: the interface n is configured with address a
SetNic(n, a) ==
    /\ kv' = [kv EXCEPT ![n] = a]
    /\ sock' = [SockCall("set_nic", "none", 0, "Ok",
                         IF sock.set.name = n THEN NoSet ELSE sock.set) EXCEPT !.stored = a]
    /\ UNCHANGED <<ifreq, osock>>
    /\ UNCHANGED <<regVars, sharedVars, lockVars>>
    /\ UNCHANGED fdVars

\* LibcSocket::open_local_dgram with socket() returning ret ; MockSocket::open_local_dgram
OpenLocalDgram(impl, ret) ==
    /\ osock = NoSock
    /\ Issued(nclose) < MaxOpens
    /\ impl = "mock" => ret = 0
    /\ LET result == IF impl = "libc" THEN open_result(ret)
                     ELSE IF impl = "platform" THEN platform_open_result(ret)
                     ELSE "Ok"
       IN
        /\ osock' = IF result = "Ok" THEN [impl |-> impl, fd |-> ret] ELSE NoSock
        /\ sock' = SockCall("open_local_dgram", impl, ret, result, sock.set)
        /\ nsocket' = IF impl \in LibcImpls /\ ret >= 0
                      THEN [nsocket EXCEPT ![ret] = @ + 1] ELSE nsocket
    /\ UNCHANGED <<kv, ifreq, nclose>>
    /\ UNCHANGED <<regVars, sharedVars, lockVars>>

\* OpenSocket::get_lladdr(arg) on the open socket, the ioctl returning ret
GetLladdr(ret) ==
    /\ osock # NoSock
    /\ osock.impl = "mock" => ret = 0
    /\ LET r == IF osock.impl \in LibcImpls THEN libc_get_lladdr(kv, ifreq, ret)
                ELSE mock_get_lladdr(kv, ifreq)
       IN
        /\ kv' = r.kv
        /\ ifreq' = r.ifreq
        /\ sock' = SockCall("get_lladdr", osock.impl, ret, r.result, sock.set)
    /\ UNCHANGED osock
    /\ UNCHANGED <<regVars, sharedVars, lockVars>>
    /\ UNCHANGED fdVars

\* OpenSocket::set_lladdr(arg) on the open socket, the ioctl returning ret
SetLladdr(ret) ==
    /\ osock # NoSock
    /\ osock.impl = "mock" => ret = 0
    /\ LET r == IF osock.impl \in LibcImpls THEN libc_set_lladdr(kv, ifreq, ret)
                ELSE mock_set_lladdr(kv, ifreq)
       IN
        /\ kv' = r.kv
        /\ ifreq' = r.ifreq
        /\ sock' = SockCall("set_lladdr", osock.impl, ret, r.result,
                            IF r.result = "Ok" THEN [name |-> ifreq.name, lladdr |-> ifreq.lladdr]
                            ELSE sock.set)
    /\ UNCHANGED osock
    /\ UNCHANGED <<regVars, sharedVars, lockVars>>
    /\ UNCHANGED fdVars

\* platform/src/macos/socket.rs, impl Default for Box<dyn OpenSocket>:
\* Box::new(LibcOpenSocket::default()), an OpenSocket with fd 0 made without socket()
DefaultOpenSocket ==
    /\ osock = NoSock
    /\ Issued(nclose) < MaxOpens
    /\ osock' = [impl |-> "platform", fd |-> 0]
    /\ sock' = SockCall("default", "platform", 0, "Ok", sock.set)
    /\ UNCHANGED <<kv, ifreq, fdVars>>
    /\ UNCHANGED <<regVars, sharedVars, lockVars>>

\* the OpenSocket goes out of scope: Drop for LibcOpenSocket calls close(self.fd), whose
\* return value is only printed; a MockOpenSocket has nothing to close
DropSocket ==
    /\ osock # NoSock
    /\ osock' = NoSock
    /\ sock' = [SockCall("drop", osock.impl, 0, "Ok", sock.set) EXCEPT !.ret = osock.fd]
    /\ nclose' = IF osock.impl \in LibcImpls
                 THEN [nclose EXCEPT ![osock.fd] = @ + 1] ELSE nclose
    /\ UNCHANGED <<kv, ifreq, nsocket>>
    /\ UNCHANGED <<regVars, sharedVars, lockVars>>

NextSocket ==
    \/ \E n \in IfNames, a \in Addrs : SetIfreq(n, a)
    \/ \E n \in IfNames, a \in Addrs : SetNic(n, a)
    \/ \E impl \in SocketImpls, ret \in SocketRets : OpenLocalDgram(impl, ret)
    \/ DefaultOpenSocket
    \/ \E ret \in IoctlRets : GetLladdr(ret)
    \/ \E ret \in IoctlRets : SetLladdr(ret)
    \/ DropSocket

SpecSocket == Init /\ [][NextSocket]_vars

\* ---- vocabulary of the properties ----
MockOps == {"on_mock", "static_on_mock"}
Returned == last.kind \in {"Ok", "Err"}
Dequeued == last.deq # NoExpect
NoExpectation == last.kind = "Err" /\ last.err = type_error(last.T, last.U, Nothing)
TypeMismatch ==
    /\ last.kind = "Err"
    /\ last.err = type_error(last.T, last.U, sig(fn_in(last.deq.f), fn_out(last.deq.f)))
\* the pending expectations of queue k are exactly those registered and not yet
\* dequeued since the last clear, the newest at Vec[0]
PendingInOrder(k) ==
    /\ Len(queue[k]) = nreg[k] - npop[k]
    /\ \A i \in 1..Len(queue[k]) : queue[k][i].id = nreg[k] - i + 1

\* C1: expectations are consumed in registration order: the k-th expectation dequeued
\* from a queue since its last clear is the k-th one registered since then, whatever
\* the types of the expectations and however expect and on_mock calls interleave.
C1_Fifo ==
    (last.op \in MockOps /\ Dequeued) => last.deq.id = npop[last.k]

C1_Witness ==
    /\ last.op = "on_mock"
    /\ last.deq.id = 2
    /\ last.pre = 1

\* C2: Mockdown::on_mock on an empty queue returns the NoExpectation error (it does
\* not panic) and leaves the queue empty.
C2_EmptyQueue ==
    (last.op = "on_mock" /\ last.pre = 0) => (NoExpectation /\ queue[last.k] = <<>>)

C2_Witness ==
    /\ last.op = "on_mock"
    /\ last.pre = 0
    /\ NoExpectation
    /\ nreg[last.k] > 0

\* C3: an on_mock whose input type differs from the input type of the expectation it
\* dequeues returns TypeMismatch without invoking the mapping; a mapping is only ever
\* invoked on an input of its own input type.
C3_InputMismatch ==
    /\ (last.op \in MockOps /\ Dequeued /\ last.T # fn_in(last.deq.f))
          => (TypeMismatch /\ last.invoked = 0)
    /\ (last.op \in MockOps /\ last.invoked # 0)
          => (Dequeued /\ last.T = fn_in(last.deq.f))

C3_Witness ==
    /\ last.op = "on_mock"
    /\ Dequeued
    /\ last.T # fn_in(last.deq.f)
    /\ TypeMismatch

\* C4: a successful on_mock returns mapping(args) of the oldest pending expectation,
\* invokes it once and removes exactly that expectation: the queue is one shorter and
\* holds the other expectations in their order; once everything is consumed a further
\* on_mock returns NoExpectation.
C4_Success ==
    /\ (last.op \in MockOps /\ last.kind = "Ok") =>
          /\ Dequeued
          /\ last.deq.id = npop[last.k]
          /\ last.val = Apply(last.deq.f, last.args)
          /\ last.invoked = 1
          /\ Len(queue[last.k]) = last.pre - 1
          /\ PendingInOrder(last.k)
    /\ (last.op \in MockOps /\ Returned /\ last.pre = 0) => NoExpectation

C4_Witness ==
    /\ last.op = "on_mock"
    /\ last.kind = "Ok"
    /\ last.pre = 2
    /\ last.val = Apply(last.deq.f, last.args)

\* C5: dropping an ExpectStore panics exactly when its queue holds an expectation.
C5_DropPanics ==
    last.op = "drop" => (last.kind = "Panic" <=> last.pre > 0)

C5_Witness ==
    /\ last.op = "drop"
    /\ last.kind = "Panic"
    /\ last.pre > 0

\* C6: no call made by a thread changes the queue another thread holds a handle to: an
\* expectation registered through A's handle is not dequeued by StaticMock::on_mock on
\* B, and B's static_mock, on_mock and clear leave A's queue as it is.
C6_ThreadIsolation ==
    [][\A a \in Threads, k \in Keys :
          (handles[a][k] > 0 /\ last'.t # a) =>
              /\ queue'[k] = queue[k]
              /\ (last'.op \in MockOps /\ last'.deq # NoExpect) => last'.deq.by = last'.t
      ]_vars

C6_Witness ==
    /\ last.op = "static_on_mock"
    /\ Dequeued
    /\ \E a \in Threads : a # last.t /\ \E k \in Keys : handles[a][k] > 0 /\ queue[k] # <<>>

\* C7: a static_mock() call that returns hands out a handle to the calling thread's
\* registry entry with an empty queue, whatever was pending before the call.
C7_StaticMockEmpty ==
    (last.op = "static_mock" /\ last.kind = "Ok") =>
        /\ last.k \in registry
        /\ handles[last.t][last.k] > 0
        /\ queue[last.k] = <<>>
        /\ \A a \in Threads : a # last.t => handles[a][last.k] = 0

C7_Witness ==
    /\ last.op = "static_mock"
    /\ last.kind = "Ok"
    /\ last.pre > 0

\* C8 (as claimed): a static_mock() call on a thread whose handle drop panicked on
\* pending expectations (which poisons the queue mutex) returns normally with the
\* thread's queue empty.
C8_Claim ==
    (last.op = "static_mock" /\ poisoned[last.k] /\ ~regPoisoned) =>
        (last.kind = "Ok" /\ queue[last.k] = <<>>)

\* C9 (as claimed): StaticMock::on_mock returns a result on every thread, also on one
\* without a registry entry, for which the entry is created; it never panics.
C9_Claim ==
    last.op = "static_on_mock" =>
        /\ Returned
        /\ last.k \in registry
        /\ last.pre = 0 => NoExpectation

\* C10: StaticMock::on_mock clears nothing: a call that returns removes the oldest
\* pending expectation when there is one and nothing else, so the expectations
\* registered since the last static_mock() stay pending.
C10_NoImplicitClear ==
    (last.op = "static_on_mock" /\ Returned) =>
        /\ Len(queue[last.k]) = (IF last.pre = 0 THEN 0 ELSE last.pre - 1)
        /\ PendingInOrder(last.k)
        /\ last.pre > 0 => (Dequeued /\ last.deq.id = npop[last.k])

C10_Witness ==
    /\ last.op = "static_on_mock"
    /\ Returned
    /\ last.pre = 2
    /\ Len(queue[last.k]) = 1

\* C11: a clear() that returns leaves the queue empty whatever it held: is_empty() is
\* true, every on_mock on it returns NoExpectation, a drop of the handle does not panic
\* (queue empty, mutex not poisoned), and no mapping was invoked by the clear.
C11_ClearEmpties ==
    (last.op = "clear" /\ last.kind = "Ok") =>
        /\ queue[last.k] = <<>>
        /\ is_empty(queue[last.k])
        /\ ~poisoned[last.k]
        /\ last.invoked = 0
        /\ \A T \in Types, U \in Types, x \in Values :
              LET r == on_mock(queue[last.k], T, U, x) IN
              /\ r.kind = "Err"
              /\ r.err.expecting = Nothing
              /\ r.invoked = 0

C11_Witness ==
    /\ last.op = "clear"
    /\ last.kind = "Ok"
    /\ last.pre = 2

\* C13: the key set of the registry only grows and no entry is replaced: static_mock
\* inserts an instance only under a key that has none, and all handles it has returned
\* to a thread point to the one queue of that thread's entry.
C13_RegistryGrows ==
    [][/\ registry \subseteq registry'
       /\ (last'.op = "static_mock" /\ last'.inserted) => last'.k \notin registry
       /\ (last'.op = "static_mock" /\ last'.kind = "Ok") =>
             /\ last'.k \in registry'
             /\ \A k \in Keys : handles'[last'.t][k] > 0 => k = last'.k
      ]_vars

C13_Witness ==
    /\ last.op = "static_mock"
    /\ last.kind = "Ok"
    /\ ~last.inserted
    /\ handles[last.t][last.k] = 2
    /\ registry = Keys

\* C17: a failing on_mock returns one of two errors that differ in what they expected:
\* NoExpectation (nothing was pending) names "nothing" and the caller's signature,
\* TypeMismatch names the dequeued entry's signature and the caller's, which differ.
C17_ErrorKinds ==
    (last.op \in MockOps /\ last.kind = "Err") =>
        /\ last.err.received = <<"fn", last.T, last.U>>
        /\ IF Dequeued
           THEN /\ last.err.expecting = <<"fn", fn_in(last.deq.f), fn_out(last.deq.f)>>
                /\ last.err.expecting # last.err.received
           ELSE /\ last.err.expecting = <<"nothing">>
                /\ last.pre = 0

C17_Witness ==
    /\ last.op = "on_mock"
    /\ last.kind = "Err"
    /\ last.err.expecting = <<"fn", 1, 1>>
    /\ last.err.received = <<"fn", 2, 1>>

\* C19: when the input type matches the dequeued expectation and the caller's output
\* type does not, on_mock returns TypeMismatch with both signatures, after having
\* invoked the mapping once.
C19_OutputMismatch ==
    (/\ last.op \in MockOps
     /\ Dequeued
     /\ last.T = fn_in(last.deq.f)
     /\ last.U # fn_out(last.deq.f)) =>
        /\ TypeMismatch
        /\ last.err.received = sig(last.T, last.U)
        /\ last.invoked = 1

C19_Witness ==
    /\ last.op = "on_mock"
    /\ Dequeued
    /\ last.T = fn_in(last.deq.f)
    /\ last.U # fn_out(last.deq.f)
    /\ last.kind = "Err"
    /\ last.invoked = 1

\* C20: an on_mock that fails with TypeMismatch has removed the oldest expectation and
\* has not put it back: the queue is one shorter and the next one pending is the
\* following expectation.
C20_FailedCallConsumes ==
    (last.op \in MockOps /\ last.kind = "Err" /\ Dequeued) =>
        /\ Len(queue[last.k]) = last.pre - 1
        /\ last.deq.id = npop[last.k]
        /\ \A i \in 1..Len(queue[last.k]) : queue[last.k][i].id > last.deq.id
        /\ PendingInOrder(last.k)

C20_Witness ==
    /\ last.op = "on_mock"
    /\ last.kind = "Err"
    /\ Dequeued
    /\ last.pre = 2
    /\ Len(queue[last.k]) = 1


\* ---- claims about handles shared by threads (SpecShared) ----
Clones(k) == {j \in Keys : origin[j] # 0 /\ origin[j] = origin[k]}
NoDuplicates(ids) == \A i \in 1..Len(ids), j \in 1..Len(ids) : ids[i] = ids[j] => i = j
QueueIds(k) == {queue[k][i].id : i \in 1..Len(queue[k])}
TakenIds(k) == {taken[k][i] : i \in 1..Len(taken[k])}

\* C12: a clone is a handle to the same queue, not a copy: all clones of one instance see
\* the same pending expectations, so that what is registered through one handle is what
\* on_mock dequeues through another, and a clear through one handle leaves the queue of
\* every clone empty.
C12_ClonesShareQueue ==
    /\ \A k \in Keys : \A j \in Clones(k) : queue[j] = queue[k]
    /\ (last.op = "clear" /\ last.kind = "Ok") =>
            \A j \in Clones(last.k) : is_empty(queue[j])
    /\ (last.op = "on_mock" /\ Dequeued) =>
            \A j \in Clones(last.k) : Len(queue[j]) = last.pre - 1

\* a thread dequeued, through its clone, the expectation another thread registered
C12_Witness ==
    /\ last.op = "on_mock"
    /\ Dequeued
    /\ last.deq.by # last.t
    /\ handles[last.deq.by][last.k] > 0
    /\ handles[last.t][last.k] > 0

\* C14: with handles to one queue held by several threads, every queue operation is
\* atomic: at most one thread is inside the queue mutex, what it read is still the queue
\* when it writes, no expectation is dequeued twice, and since the last clear the
\* expectations dequeued plus those pending are exactly those registered.
C14_AtomicQueueOps ==
    \A k \in Keys :
        /\ NoDuplicates(taken[k])
        /\ TakenIds(k) \cap QueueIds(k) = {}
        /\ TakenIds(k) \cup QueueIds(k) = 1..nreg[k]
        /\ Len(taken[k]) + Len(queue[k]) = nreg[k]
        /\ Len(taken[k]) = npop[k]
        /\ Cardinality({t \in Threads : InSection(t) /\ pc[t].k = k}) <= 1
        /\ \A t \in Threads : (InSection(t) /\ pc[t].k = k) =>
                (qlock[k] = t /\ pc[t].snap = queue[k])

\* one thread is inside on_mock on the queue from which another thread has just
\* dequeued an expectation, with a second expectation still pending
C14_Witness ==
    /\ last.op = "on_mock"
    /\ Dequeued
    /\ Len(queue[last.k]) = 1
    /\ \E u \in Threads :
        /\ u # last.t
        /\ pc[u].op = "on_mock"
        /\ pc[u].k = last.k
        /\ handles[u][last.k] > 0

\* ---- claims about the registry mutex (SpecLock) ----
\* the thread that holds the lock thread t is blocked on (0: t is not blocked)
WaitsFor(t) ==
    IF At(t, "deadlock") THEN regLock
    ELSE IF At(t, "with") /\ regLock # t THEN regLock
    ELSE IF At(t, "lock_queue") THEN qlock[current_id(t)]
    ELSE 0

\* a set of threads each blocked on a lock held inside the set
Deadlock == \E S \in (SUBSET Threads) \ {{}} : \A t \in S : WaitsFor(t) \in S

\* C15: whatever the threads call on one registry, and also when a mapping run by
\* StaticMock::on_mock calls static_mock or on_mock of the same registry, no set of
\* threads is deadlocked and no call ends in the panic of locking a mutex twice.
C15_Claim ==
    /\ ~Deadlock
    /\ ~(last.op = "relock" /\ last.kind = "Panic")

\* C16: a thread holds the registry mutex only for one map lookup or insert: not while
\* it acquires or holds a queue mutex, and not while a dequeued mapping runs (so that no
\* other thread waits in with() for the length of a mapping).
C16_Claim ==
    \A t \in Threads :
        regLock = t =>
            /\ At(t, "map")
            /\ Len(frames[t]) = 1
            /\ \A k \in Keys : qlock[k] # t

\* ---- claims about the socket shim (SpecSocket) ----
SocketOps == {"get_lladdr", "set_lladdr"}

\* C18: through an open socket, a set_lladdr that returns Ok leaves the system holding
\* the request's address for the request's interface; a get_lladdr that returns Ok on a
\* configured interface writes the stored address into the request and leaves the
\* stored address alone, so that a get after a set yields the address set; and through
\* LibcOpenSocket a call returns Ok exactly when the ioctl returned 0.
C18_SetGetRoundTrip ==
    /\ (sock.op = "set_lladdr" /\ sock.result = "Ok") => kv[sock.name] = sock.lladdr
    /\ (sock.op = "get_lladdr" /\ sock.result = "Ok" /\ sock.stored # NoNic) =>
            /\ ifreq.name = sock.name
            /\ ifreq.lladdr = sock.stored
            /\ kv[sock.name] = sock.stored
    /\ (sock.op = "get_lladdr" /\ sock.result = "Ok" /\ sock.set.name = sock.name) =>
            ifreq.lladdr = sock.set.lladdr
    /\ (sock.op \in SocketOps /\ sock.impl = "libc") =>
            (sock.result = "Ok" <=> sock.ret = 0)
    /\ (sock.op \in SocketOps /\ sock.impl = "mock") => sock.result = "Ok"

\* a get_lladdr through LibcOpenSocket wrote into the request the address that an
\* earlier set_lladdr had stored, replacing a different address in the request
C18_Witness ==
    /\ sock.op = "get_lladdr"
    /\ sock.impl = "libc"
    /\ sock.result = "Ok"
    /\ sock.set.name = sock.name
    /\ sock.lladdr # sock.set.lladdr
    /\ ifreq.lladdr = sock.set.lladdr

\* ---- claims about dropping one of several handles (Spec) ----
\* C21: dropping a single handle while the shared queue is non-empty panics also when
\* other handles to the queue (the instance in the registry, other clones) are alive
\* and could still consume the expectations.
C21_DropOfCloneIsPanic ==
    (last.op = "drop" /\ last.pre > 0 /\ HandleCount(last.k) > 0) => last.kind = "Panic"

\* the handle returned by static_mock().expect(f) was dropped before any on_mock, with
\* the registry still holding the instance: the drop panicked and f is still pending
C21_Witness ==
    /\ last.op = "drop"
    /\ last.kind = "Panic"
    /\ last.pre = 1
    /\ contains_key(registry, last.k)
    /\ HandleCount(last.k) > 0
    /\ npop[last.k] = 0
    /\ Len(queue[last.k]) = 1
    /\ queue[last.k][1].by = last.t

\* the descriptor fd is held by an OpenSocket of a LibcSocket that is not yet dropped
Alive(fd) == osock # NoSock /\ osock.impl \in LibcImpls /\ osock.fd = fd

\* C22: open_local_dgram on a LibcSocket returns an error and creates no OpenSocket
\* when socket() returns a negative value, and creates one when it returns a valid
\* descriptor; close(fd) is never issued more often than socket() returned fd (so never
\* for a descriptor socket() did not return), it has been issued once for every
\* returned descriptor whose OpenSocket is gone, it is issued by the drop, and every
\* get_lladdr / set_lladdr runs on an OpenSocket not yet dropped.
C22_Claim ==
    /\ (sock.op = "open_local_dgram" /\ sock.impl \in LibcImpls /\ sock.ret < 0) =>
            (sock.result = "Err" /\ osock = NoSock)
    /\ (sock.op = "open_local_dgram" /\ sock.impl \in LibcImpls /\ sock.ret >= 0) =>
            (sock.result = "Ok" /\ Alive(sock.ret))
    /\ \A fd \in SocketRets :
            /\ nclose[fd] <= nsocket[fd]
            /\ ~Alive(fd) => nclose[fd] = nsocket[fd]
    /\ (sock.op = "drop" /\ sock.impl \in LibcImpls) =>
            (osock = NoSock /\ nclose[sock.ret] >= 1)
    /\ (sock.op \in SocketOps /\ sock.impl \in LibcImpls) => Alive(osock.fd)
====
